---- MODULE Spec2Model ----
(***************************************************************************)
(* Model of lib/utils/workpool/workpool.go: a pool of per-key work groups. *)
(* Each group owns Counts{Target, Active} and a controller goroutine       *)
(* (group.run) that offers leases on the pool's shared unbuffered channel  *)
(* while Active < Target.  Callers Set targets, receive leases from        *)
(* Acquire(), Release them, and may Stop the pool.                         *)
(*                                                                         *)
(* Atomicity.  pool.Get and pool.Set run wholly under the pool mutex and   *)
(* never block inside it, so each is one step.  loadCounts, incrActive,    *)
(* decrActive and SetTarget each run wholly under the group mutex cmu, so  *)
(* each is one step.  leaseIDs.Add is one atomic step.  The select of      *)
(* group.run is one step that commits to one ready case; when several      *)
(* cases are ready Go picks any of them, so each case is its own action.   *)
(* A send on the unbuffered grantC commits together with one receiver.     *)
(* sync.Once.Do is a fast-path read of its done flag followed by a slow    *)
(* path that runs wholly under the Once's mutex.  The goroutines calling    *)
(* Release are alike, so the model keeps, per lease, how many of them are  *)
(* inside Do.                                                              *)
(*                                                                         *)
(* SpecLocks drops this atomicity for the mutexes: there every Lock of the *)
(* pool mutex, of a group's cmu and of a lease's Once is a step of its own *)
(* that waits while the mutex is held.                                     *)
(*                                                                         *)
(* The module also models utils.Linear, the retry period in arithmetic     *)
(* progression (SpecLinear); it shares no state with the pool.             *)
(***************************************************************************)
EXTENDS Integers, Sequences, FiniteSets, TLC

\* ------------------------------------------------------------------------
\* Bounds of the model
\* ------------------------------------------------------------------------
\* largest target a caller passes to Set
MaxTarget == 2
\* number of calls of Set, Stop and receives on Acquire() over a run
MaxCalls == 4
\* largest First, Step and Max of a LinearConfig, in units of time.Duration
MaxDuration == 3
\* number of calls of Inc on one Linear
MaxInc == 3
\* number of calls of Get, Set, Stop and Release where the mutexes are
\* modelled
MaxLockCalls == 3

Keys == {"a", "b"}
FirstKey == "a"
\* the goroutines that call Release
Callers == {"c1", "c2"}
\* the goroutines that call Get, Set, Stop and Release where the mutexes are
\* modelled
Tids == {"t1", "t2"}
FirstTid == "t1"
\* a goroutine that is inside no call
Idle == [op |-> "idle", pc |-> "idle", key |-> "", target |-> 0, lease |-> 0]
Targets == 0..MaxTarget

\* ------------------------------------------------------------------------
\* uint64 arithmetic (Counts.Target, Counts.Active are uint64).  A value is
\* kept at its full width as four 16-bit limbs, most significant first.
\* ------------------------------------------------------------------------
LimbBase == 2^16
LimbMax == LimbBase - 1

U64(n) == <<0, 0, 0, n>>
U64Zero == <<0, 0, 0, 0>>
U64Max == <<LimbMax, LimbMax, LimbMax, LimbMax>>

\* x++ on a uint64: wraps from 2^64-1 to 0
U64Inc(x) ==
    IF x[4] < LimbMax THEN <<x[1], x[2], x[3], x[4] + 1>>
    ELSE IF x[3] < LimbMax THEN <<x[1], x[2], x[3] + 1, 0>>
    ELSE IF x[2] < LimbMax THEN <<x[1], x[2] + 1, 0, 0>>
    ELSE IF x[1] < LimbMax THEN <<x[1] + 1, 0, 0, 0>>
    ELSE U64Zero

\* x-- on a uint64: wraps from 0 to 2^64-1
U64Dec(x) ==
    IF x[4] > 0 THEN <<x[1], x[2], x[3], x[4] - 1>>
    ELSE IF x[3] > 0 THEN <<x[1], x[2], x[3] - 1, LimbMax>>
    ELSE IF x[2] > 0 THEN <<x[1], x[2] - 1, LimbMax, LimbMax>>
    ELSE IF x[1] > 0 THEN <<x[1] - 1, LimbMax, LimbMax, LimbMax>>
    ELSE U64Max

\* x < y on uint64
U64Lt(x, y) ==
    \/ x[1] < y[1]
    \/ x[1] = y[1] /\ x[2] < y[2]
    \/ x[1] = y[1] /\ x[2] = y[2] /\ x[3] < y[3]
    \/ x[1] = y[1] /\ x[2] = y[2] /\ x[3] = y[3] /\ x[4] < y[4]

\* ------------------------------------------------------------------------
\* State
\* ------------------------------------------------------------------------
VARIABLES
    groups,     \* pool.groups: key -> index of its group object, 0 = no entry
    leaseIDs,   \* pool.leaseIDs
    stopped,    \* pool.ctx has been cancelled (pool.cancel was called)
    group,      \* the group objects created so far, in creation order
    run,        \* the locals and position of each group's run() goroutine
    leases,     \* the leases received from Acquire(), in order of receipt
    waiting,    \* number of goroutines blocked in <-pool.Acquire()
    lastSet,    \* history: target of the last Set call per key (0 = none)
    nCalls,     \* history: number of Set, Stop and Acquire() calls so far
    mu,         \* holder of the pool mutex (pool.Mutex), "" = unlocked
    cmu,        \* per group object: holder of its mutex cmu, "" = unlocked
    omu,        \* per lease: holder of its relOnce's mutex, "" = unlocked
    thr,        \* per calling goroutine: the pool call it is inside
    linear      \* the Linear retry objects (utils.Linear)

\* the pool, its groups and leases
poolVars == <<groups, leaseIDs, stopped, group, run, leases, waiting,
              lastSet, nCalls>>
\* the mutexes and the goroutines that take them step by step
lockVars == <<mu, cmu, omu, thr>>

vars == <<groups, leaseIDs, stopped, group, run, leases, waiting,
          lastSet, nCalls, mu, cmu, omu, thr, linear>>

\* Counts{} zero value
ZeroCounts == [Target |-> U64Zero, Active |-> U64Zero]

Gids == 1..Len(group)
Lids == 1..Len(leases)

\* capacity of notifyC (make(chan struct{}, 1))
NotifyCap == 1
\* variant of notify that sends nothing
notify_Drop(n) == n
\* ------------------------------------------------------------------------
\* group methods, as functions from a group object to the updated object
\* ------------------------------------------------------------------------
\* group.notify: non-blocking send on notifyC; n is the number buffered
notify(n) == IF n < NotifyCap THEN n + 1 ELSE n

\* group.loadCounts
loadCounts(g) == group[g].counts

\* variant of incrActive that wakes the group but leaves Active as it is
incrActive_NoIncr(gr) == [gr EXCEPT !.notifyC = notify(@)]
\* group.incrActive
incrActive(gr) ==
    [gr EXCEPT !.counts.Active = U64Inc(@), !.notifyC = notify(@)]

\* group.decrActive
decrActive(gr) ==
    [gr EXCEPT !.counts.Active = U64Dec(@), !.notifyC = notify(@)]

\* variant of SetTarget that wakes the group but does not store the target
SetTarget_Keep(gr, target) == [gr EXCEPT !.notifyC = notify(@)]
\* group.SetTarget
SetTarget(gr, target) ==
    [gr EXCEPT !.counts.Target = U64(target), !.notifyC = notify(@)]

\* the group object built by pool.start
NewGroup(key, target) ==
    [key |-> key,
     counts |-> [Target |-> U64(target), Active |-> U64Zero],
     notifyC |-> 0,
     cancelled |-> FALSE]

\* locals of a freshly started run(): nextLease nil, grant nil.  The local
\* counts is read only by the comparison that follows its load, in the same
\* step, and is not kept.
NewRun == [pc |-> "load", nextLease |-> 0, grant |-> FALSE]
\* variant of ctxDone for a group context that is not derived from the
\* pool's
ctxDone_OwnOnly(g) == group[g].cancelled
\* g.ctx.Done() is closed: the group's own cancel or the pool's was called
ctxDone(g) == group[g].cancelled \/ stopped

\* variant of AllocLeaseID that reads the counter without advancing it
AllocLeaseID_NoAdvance(ids) == [id |-> ids + 1, next |-> ids]
\* g.leaseIDs.Add(1): the counter after the add, which is also the id
\* returned.  Ids stay far below 2^64 in any run of the model, so they are
\* plain naturals.
AllocLeaseID(ids) == [id |-> ids + 1, next |-> ids + 1]

\* pool.Get
Get(key) == IF groups[key] # 0 THEN loadCounts(groups[key]) ELSE ZeroCounts

\* ------------------------------------------------------------------------
\* Initial state: NewPool
\* ------------------------------------------------------------------------
Init ==
    /\ groups = [k \in Keys |-> 0]
    /\ leaseIDs = 0
    /\ stopped = FALSE
    /\ group = <<>>
    /\ run = <<>>
    /\ leases = <<>>
    /\ waiting = 0
    /\ lastSet = [k \in Keys |-> 0]
    /\ nCalls = 0
    /\ mu = ""
    /\ cmu = [g \in 1..MaxCalls |-> ""]
    /\ omu = [i \in 1..MaxCalls |-> ""]
    /\ thr = [t \in Tids |-> Idle]
    /\ linear = <<>>
del_CancelAll(key) ==
    IF groups[key] = 0
    THEN UNCHANGED <<groups, group>>
    ELSE /\ group' = [g \in Gids |-> [group[g] EXCEPT !.cancelled = TRUE]]
         /\ groups' = [groups EXCEPT ![key] = 0]
\* ------------------------------------------------------------------------
\* pool.Set, pool.del, pool.start, pool.Stop
\* ------------------------------------------------------------------------
\* variant of del that cancels the group but keeps its registry entry
del_NoDelete(key) ==
    IF groups[key] = 0
    THEN UNCHANGED <<groups, group>>
    ELSE /\ group' = [group EXCEPT ![groups[key]].cancelled = TRUE]
         /\ UNCHANGED groups
\* pool.del: cancel the key's group and delete its registry entry
del(key) ==
    IF groups[key] = 0
    THEN UNCHANGED <<groups, group>>
    ELSE /\ group' = [group EXCEPT ![groups[key]].cancelled = TRUE]
         /\ groups' = [groups EXCEPT ![key] = 0]

\* pool.start: build the group, register it, go g.run()
start(key, target) ==
    /\ group' = Append(group, NewGroup(key, target))
    /\ run' = Append(run, NewRun)
    /\ groups' = [groups EXCEPT ![key] = Len(group) + 1]
\* variant of Set that starts a group without looking the key up first
Set_AlwaysStart(key, target) ==
    /\ nCalls < MaxCalls
    /\ Len(group) = 0 => key = FirstKey
    /\ nCalls' = nCalls + 1
    /\ lastSet' = [lastSet EXCEPT ![key] = target]
    /\ IF target < 1
       THEN del(key) /\ UNCHANGED run
       ELSE start(key, target)
    /\ UNCHANGED <<leaseIDs, stopped, leases, waiting>>
\* pool.Set(key, target), under the pool mutex.  The pool treats keys alike
\* (it only compares them), so while no group was ever created the state is
\* the same for every key and the call is made with the first key only.
Set(key, target) ==
    /\ nCalls < MaxCalls
    /\ Len(group) = 0 => key = FirstKey
    /\ nCalls' = nCalls + 1
    /\ lastSet' = [lastSet EXCEPT ![key] = target]
    /\ IF target < 1
       THEN del(key) /\ UNCHANGED run
       ELSE IF groups[key] = 0
            THEN start(key, target)
            ELSE /\ group' = [group EXCEPT ![groups[key]] = SetTarget(@, target)]
                 /\ UNCHANGED <<groups, run>>
    /\ UNCHANGED <<leaseIDs, stopped, leases, waiting>>

\* pool.Stop: p.cancel()
Stop ==
    /\ nCalls < MaxCalls
    /\ nCalls' = nCalls + 1
    /\ stopped' = TRUE
    /\ UNCHANGED <<groups, leaseIDs, group, run, leases, waiting, lastSet>>
\* variant of RunLoad that also offers when Active equals Target
RunLoad_OffByOne(g) ==
    /\ run[g].pc = "load"
    /\ LET counts == loadCounts(g)
           granting == ~U64Lt(counts.Target, counts.Active)
       IN run' = [run EXCEPT ![g].grant = granting,
                             ![g].pc = IF granting /\ run[g].nextLease = 0
                                       THEN "newLease" ELSE "select"]
    /\ UNCHANGED <<groups, leaseIDs, stopped, group, leases, waiting, lastSet, nCalls>>
\* ------------------------------------------------------------------------
\* group.run, one action per step of the loop
\* ------------------------------------------------------------------------
\* counts = g.loadCounts(); if counts.Active < counts.Target { grant =
\* g.grantC ... } else { grant = nil }.  The load is the step's one shared
\* access; the comparison and the assignment to grant are local.
RunLoad(g) ==
    /\ run[g].pc = "load"
    /\ LET counts == loadCounts(g)
           granting == U64Lt(counts.Active, counts.Target)
       IN run' = [run EXCEPT ![g].grant = granting,
                             ![g].pc = IF granting /\ run[g].nextLease = 0
                                       THEN "newLease" ELSE "select"]
    /\ UNCHANGED <<groups, leaseIDs, stopped, group, leases, waiting, lastSet, nCalls>>

\* if nextLease == nil { nextLease = &lease{group: g, id: g.leaseIDs.Add(1)} }
RunNewLease(g) ==
    /\ run[g].pc = "newLease"
    /\ run' = [run EXCEPT ![g].nextLease = AllocLeaseID(leaseIDs).id,
                          ![g].pc = "select"]
    /\ leaseIDs' = AllocLeaseID(leaseIDs).next
    /\ UNCHANGED <<groups, stopped, group, leases, waiting, lastSet, nCalls>>

\* the lease object a receiver holds: id and owning group from the code;
\* done is relOnce's flag and inDo the number of goroutines that are inside
\* relOnce.Do past its fast path; afterDel is history: whether its group had
\* already left the registry when its decrement ran, and afterNew whether
\* the key then had a group built later
NewLease(g) ==
    [id |-> run[g].nextLease, group |-> g, done |-> FALSE, inDo |-> 0,
     afterDel |-> FALSE, afterNew |-> FALSE]

\* select case grant <- nextLease, committed with one waiting receiver
RunGrant(g) ==
    /\ run[g].pc = "select"
    /\ run[g].grant
    /\ waiting > 0
    /\ waiting' = waiting - 1
    /\ leases' = Append(leases, NewLease(g))
    /\ run' = [run EXCEPT ![g].pc = "incr"]
    /\ UNCHANGED <<groups, leaseIDs, stopped, group, lastSet, nCalls>>
\* variant of RunIncr that keeps the granted lease as the next candidate
RunIncr_KeepLease(g) ==
    /\ run[g].pc = "incr"
    /\ group' = [group EXCEPT ![g] = incrActive(@)]
    /\ run' = [run EXCEPT ![g].pc = "load"]
    /\ UNCHANGED <<groups, leaseIDs, stopped, leases, waiting, lastSet, nCalls>>
\* body of the grant case: g.incrActive(); nextLease = nil
RunIncr(g) ==
    /\ run[g].pc = "incr"
    /\ group' = [group EXCEPT ![g] = incrActive(@)]
    /\ run' = [run EXCEPT ![g].nextLease = 0, ![g].pc = "load"]
    /\ UNCHANGED <<groups, leaseIDs, stopped, leases, waiting, lastSet, nCalls>>

\* select case <-g.notifyC
RunNotified(g) ==
    /\ run[g].pc = "select"
    /\ group[g].notifyC > 0
    /\ group' = [group EXCEPT ![g].notifyC = @ - 1]
    /\ run' = [run EXCEPT ![g].pc = "load"]
    /\ UNCHANGED <<groups, leaseIDs, stopped, leases, waiting, lastSet, nCalls>>

\* select case <-g.ctx.Done(): return
RunDone(g) ==
    /\ run[g].pc = "select"
    /\ ctxDone(g)
    /\ run' = [run EXCEPT ![g].pc = "done"]
    /\ UNCHANGED <<groups, leaseIDs, stopped, group, leases, waiting, lastSet, nCalls>>

\* ------------------------------------------------------------------------
\* Callers of Acquire() and of lease.Release
\* ------------------------------------------------------------------------
\* a goroutine starts to receive on pool.Acquire()
Acquire ==
    /\ nCalls < MaxCalls
    /\ nCalls' = nCalls + 1
    /\ waiting' = waiting + 1
    /\ UNCHANGED <<groups, leaseIDs, stopped, group, run, leases, lastSet>>

\* number of goroutines currently inside some lease's relOnce.Do
RECURSIVE InDo(_)
InDo(n) == IF n = 0 THEN 0 ELSE leases[n].inDo + InDo(n - 1)

\* lease.Release by one more caller: l.relOnce.Do(...), fast path: return if
\* the Once is done, else enter the slow path
Release(i) ==
    /\ InDo(Len(leases)) < Cardinality(Callers)
    /\ leases' = [leases EXCEPT ![i].inDo = IF leases[i].done THEN @ ELSE @ + 1]
    /\ UNCHANGED <<groups, leaseIDs, stopped, group, run, waiting, lastSet, nCalls>>
\* variant of OnceDoSlow that finds the group to decrement by the lease's
\* key in the registry
OnceDoSlow_ByKey(i) ==
    /\ leases[i].inDo > 0
    /\ LET g == leases[i].group
           h == IF groups[group[g].key] # 0 THEN groups[group[g].key] ELSE g
       IN IF ~leases[i].done
          THEN /\ group' = [group EXCEPT ![h] = decrActive(@)]
               /\ leases' = [leases EXCEPT ![i].done = TRUE,
                                           ![i].inDo = @ - 1,
                                           ![i].afterDel = (groups[group[g].key] # g),
                                           ![i].afterNew = (groups[group[g].key] \notin {0, g})]
          ELSE /\ leases' = [leases EXCEPT ![i].inDo = @ - 1]
               /\ UNCHANGED group
    /\ UNCHANGED <<groups, leaseIDs, stopped, run, waiting, lastSet, nCalls>>
\* variant of OnceDoSlow that does not test the done flag again under the
\* mutex
OnceDoSlow_NoRecheck(i) ==
    /\ leases[i].inDo > 0
    /\ LET g == leases[i].group
       IN /\ group' = [group EXCEPT ![g] = decrActive(@)]
          /\ leases' = [leases EXCEPT ![i].done = TRUE,
                                      ![i].inDo = @ - 1,
                                      ![i].afterDel = (groups[group[g].key] # g),
                                      ![i].afterNew = (groups[group[g].key] \notin {0, g})]
    /\ UNCHANGED <<groups, leaseIDs, stopped, run, waiting, lastSet, nCalls>>
\* relOnce.Do slow path of one caller, under the Once's mutex: if not done,
\* run l.decrActive() and mark the Once done; return
OnceDoSlow(i) ==
    /\ leases[i].inDo > 0
    /\ LET g == leases[i].group
       IN IF ~leases[i].done
          THEN /\ group' = [group EXCEPT ![g] = decrActive(@)]
               /\ leases' = [leases EXCEPT ![i].done = TRUE,
                                           ![i].inDo = @ - 1,
                                           ![i].afterDel = (groups[group[g].key] # g),
                                           ![i].afterNew = (groups[group[g].key] \notin {0, g})]
          ELSE /\ leases' = [leases EXCEPT ![i].inDo = @ - 1]
               /\ UNCHANGED group
    /\ UNCHANGED <<groups, leaseIDs, stopped, run, waiting, lastSet, nCalls>>

\* ------------------------------------------------------------------------
\* The pool with every operation available
\* ------------------------------------------------------------------------
Next ==
    \/ \E key \in Keys, target \in Targets :
          Set(key, target) /\ UNCHANGED <<lockVars, linear>>
    \/ Stop /\ UNCHANGED <<lockVars, linear>>
    \/ Acquire /\ UNCHANGED <<lockVars, linear>>
    \/ \E g \in Gids : RunLoad(g) /\ UNCHANGED <<lockVars, linear>>
    \/ \E g \in Gids : RunNewLease(g) /\ UNCHANGED <<lockVars, linear>>
    \/ \E g \in Gids : RunGrant(g) /\ UNCHANGED <<lockVars, linear>>
    \/ \E g \in Gids : RunIncr(g) /\ UNCHANGED <<lockVars, linear>>
    \/ \E g \in Gids : RunNotified(g) /\ UNCHANGED <<lockVars, linear>>
    \/ \E g \in Gids : RunDone(g) /\ UNCHANGED <<lockVars, linear>>
    \/ \E i \in Lids : Release(i) /\ UNCHANGED <<lockVars, linear>>
    \/ \E i \in Lids : OnceDoSlow(i) /\ UNCHANGED <<lockVars, linear>>

Spec == Init /\ [][Next]_vars

TypeOK ==
    /\ groups \in [Keys -> 0..MaxCalls]
    /\ Len(group) = Len(run)
    /\ nCalls \in 0..MaxCalls
    /\ Len(group) + Len(leases) + waiting <= nCalls
    /\ InDo(Len(leases)) <= Cardinality(Callers)

\* key of the group that granted lease i (lease.Key)
KeyOf(i) == group[leases[i].group].key

\* the first Release of lease i takes effect in this step
Released(i) == ~leases[i].done /\ leases'[i].done

\* ------------------------------------------------------------------------
\* C1  Release is exactly-once
\* ------------------------------------------------------------------------
\* C1: for every lease, the first Release to take effect decrements the
\* Active count of the lease's group by exactly 1 and changes no other
\* group's counts; a Release that completes on a lease already released
\* (a repeated call, or a concurrent caller that lost the race inside
\* relOnce.Do) changes no group at all; a released lease is never re-armed;
\* and no group's Active goes down by a Release other than through the first
\* Release of one of its own leases.
C1_ReleaseExactlyOnce ==
    [][\A i \in Lids :
         LET g == leases[i].group IN
         /\ leases[i].done => leases'[i].done
         /\ Released(i) =>
              /\ group'[g].counts.Active = U64Dec(group[g].counts.Active)
              /\ \A h \in Gids \ {g} : group'[h].counts = group[h].counts
              /\ \A j \in Lids \ {i} : ~Released(j)
         /\ (leases[i].done /\ leases'[i].inDo < leases[i].inDo) =>
              group' = group
      ]_vars

\* C1 witness: lease i has been released and another caller is still inside
\* relOnce.Do for the same lease
C1_Witness ==
    \E i \in Lids : leases[i].done /\ leases[i].inDo > 0

\* ------------------------------------------------------------------------
\* C2  grants only while Active < Target
\* ------------------------------------------------------------------------
\* C2: whenever a receiver obtains a lease from a registered group, that
\* group's current Active is strictly below its current Target.
C2_GrantOnlyBelowTarget ==
    [][\A g \in Gids :
         (run[g].pc = "select" /\ run'[g].pc = "incr" /\ groups[group[g].key] = g)
            => U64Lt(group[g].counts.Active, group[g].counts.Target)
      ]_vars

\* ------------------------------------------------------------------------
\* C3  Active never goes below 0
\* ------------------------------------------------------------------------
\* C3: no step decrements a group's Active while it is 0 (wrapping the
\* uint64 to 2^64-1), and Get never returns an Active above the number of
\* leases ever received.
C3_ActiveNeverBelowZero ==
    [][/\ \A g \in Gids :
            group[g].counts.Active = U64Zero => group'[g].counts.Active # U64Max
       /\ \A k \in Keys : ~U64Lt(U64(Len(leases')), Get(k)'.Active)
      ]_vars

\* ------------------------------------------------------------------------
\* C4  no lease after Stop
\* ------------------------------------------------------------------------
\* C4: once Stop has returned, no receive on Acquire() yields a lease.
C4_NoLeaseAfterStop ==
    [][stopped => Len(leases') = Len(leases)]_vars

\* ------------------------------------------------------------------------
\* C5  Get reflects the last Set
\* ------------------------------------------------------------------------
\* C5: for every key, if the last Set on it had target t >= 1 then
\* Get(key).Target = t, and if the last Set had target < 1, or the key was
\* never set, then Get(key) = {0,0} and the registry has no group for it.
C5_GetReflectsLastSet ==
    \A k \in Keys :
        IF lastSet[k] >= 1
        THEN Get(k).Target = U64(lastSet[k])
        ELSE Get(k) = ZeroCounts /\ groups[k] = 0

\* C5 witness: a key was set, one of its leases was received and counted,
\* and the key was then set to another target
C5_Witness ==
    \E k \in Keys :
        /\ nCalls = 3 /\ lastSet[k] = 2 /\ Len(group) = 1
        /\ Len(leases) = 1 /\ Get(k).Active = U64(1)

\* ------------------------------------------------------------------------
\* C7  release after removal
\* ------------------------------------------------------------------------
\* C7: when the first Release of a lease takes effect while the last Set on
\* the lease's key was a removal (target < 1), Get(key) is {0,0} before and
\* after that Release and the registry is unchanged by it.
C7_ReleaseAfterRemove ==
    [][\A i \in Lids :
         (lastSet[KeyOf(i)] = 0 /\ Released(i)) =>
            /\ Get(KeyOf(i)) = ZeroCounts
            /\ groups' = groups
            /\ Get(KeyOf(i))' = ZeroCounts
      ]_vars

\* C7 witness: a lease was released after its group had left the registry,
\* and the key is still removed
C7_Witness ==
    \E i \in Lids :
        /\ leases[i].done /\ leases[i].afterDel
        /\ lastSet[KeyOf(i)] = 0 /\ groups[KeyOf(i)] = 0

\* ------------------------------------------------------------------------
\* C9  Active counts the held leases
\* ------------------------------------------------------------------------
\* leases of key k that were received and not yet released
Held(k) == {i \in Lids : KeyOf(i) = k /\ ~leases[i].done}

\* C9: for every key that has a group, Get(key).Active equals the number of
\* leases of that key received from Acquire() and not yet released.
C9_ActiveCountsHeld ==
    \A k \in Keys : groups[k] # 0 => Get(k).Active = U64(Cardinality(Held(k)))

SetOnce ==
    /\ Len(group) = 0
    /\ \E n \in 1..MaxTarget : Set("a", n)

\* the scenario's n+1 receivers arrive, in any order with the other steps
AcquireNPlus1 ==
    /\ Len(group) = 1
    /\ waiting + Len(leases) < lastSet["a"] + 1
    /\ Acquire

NextC6 ==
    \/ SetOnce /\ UNCHANGED <<lockVars, linear>>
    \/ AcquireNPlus1 /\ UNCHANGED <<lockVars, linear>>
    \/ \E g \in Gids : RunLoad(g) /\ UNCHANGED <<lockVars, linear>>
    \/ \E g \in Gids : RunNewLease(g) /\ UNCHANGED <<lockVars, linear>>
    \/ \E g \in Gids : RunGrant(g) /\ UNCHANGED <<lockVars, linear>>
    \/ \E g \in Gids : RunIncr(g) /\ UNCHANGED <<lockVars, linear>>
    \/ \E g \in Gids : RunNotified(g) /\ UNCHANGED <<lockVars, linear>>
    \/ \E i \in Lids : Release(i) /\ UNCHANGED <<lockVars, linear>>
    \/ \E i \in Lids : OnceDoSlow(i) /\ UNCHANGED <<lockVars, linear>>

SpecC6 == Init /\ [][NextC6]_vars

\* no Release has been called on any lease so far
NoReleaseYet ==
    \A i \in Lids : ~leases[i].done /\ leases[i].inDo = 0

\* C6: with key "a" set to n and no Release so far, at most n receives have
\* succeeded, and once n have succeeded Get("a") = {Target: n, Active: n}.
C6_TargetReached ==
    (Len(group) = 1 /\ NoReleaseYet) =>
        /\ Len(leases) <= lastSet["a"]
        /\ Len(leases) = lastSet["a"] =>
              Get("a") = [Target |-> U64(lastSet["a"]), Active |-> U64(lastSet["a"])]

\* ------------------------------------------------------------------------
\* C8  scenario: two keys with target 1, two receivers
\* ------------------------------------------------------------------------
\* the scenario's Set calls: Set(key, 1), once per key
SetOne(key) ==
    /\ lastSet[key] = 0
    /\ Set(key, 1)

\* the scenario's two receivers arrive, in any order with the other steps
AcquireTwo ==
    /\ waiting + Len(leases) < Cardinality(Keys)
    /\ Acquire

\* one step of the run() goroutine of group g
RunStep(g) ==
    /\ g \in Gids
    /\ \/ RunLoad(g)
       \/ RunNewLease(g)
       \/ RunGrant(g)
       \/ RunIncr(g)
       \/ RunNotified(g)
       \/ RunDone(g)
    /\ UNCHANGED <<lockVars, linear>>

NextC8 ==
    \/ \E key \in Keys : SetOne(key) /\ UNCHANGED <<lockVars, linear>>
    \/ AcquireTwo /\ UNCHANGED <<lockVars, linear>>
    \/ \E g \in Gids : RunLoad(g) /\ UNCHANGED <<lockVars, linear>>
    \/ \E g \in Gids : RunNewLease(g) /\ UNCHANGED <<lockVars, linear>>
    \/ \E g \in Gids : RunGrant(g) /\ UNCHANGED <<lockVars, linear>>
    \/ \E g \in Gids : RunIncr(g) /\ UNCHANGED <<lockVars, linear>>
    \/ \E g \in Gids : RunNotified(g) /\ UNCHANGED <<lockVars, linear>>

\* The Go scheduler runs every runnable goroutine eventually: a run()
\* goroutine whose next step stays possible takes a step.
SpecC8 ==
    /\ Init
    /\ [][NextC8]_vars
    /\ \A g \in 1..Cardinality(Keys) : WF_vars(RunStep(g))

\* both keys are set to 1 and both receivers are on Acquire()
C8_Setup ==
    /\ \A k \in Keys : lastSet[k] = 1
    /\ waiting + Len(leases) = Cardinality(Keys)

\* C8: with both keys set to target 1 and two receivers, both receives
\* eventually succeed and the two leases carry the two different keys.
C8_BothKeysServed ==
    C8_Setup ~> (Len(leases) = 2 /\ {KeyOf(1), KeyOf(2)} = Keys)

\* C8 witness: both receives have succeeded, one lease per key
C8_Witness ==
    /\ C8_Setup
    /\ Len(leases) = 2
    /\ {KeyOf(i) : i \in Lids} = Keys

\* what a removing Set leaves alone: every group object but the key's, the
\* registry entry and the counts of every other key, every controller, every
\* lease, the receivers, the id counter and the pool's own context
SetRemoveFrame(key) ==
    /\ \A g \in Gids : g # groups[key] => group'[g] = group[g]
    /\ \A k \in Keys \ {key} : groups'[k] = groups[k] /\ Get(k)' = Get(k)
    /\ UNCHANGED <<run, leases, waiting, leaseIDs, stopped>>
    /\ groups[key] = 0 => UNCHANGED <<groups, group>>

\* C12: Set(key, t) with t < 1 touches only the group of that key: the group
\* objects, registry entries and counts of all other keys, and all
\* controllers (what they have loaded, their offers), are as before, so no
\* other group is cancelled and each goes on offering as it did; when the key
\* has no group the pool is left exactly as it was.
C12_SetRemoveOnlyThatKey ==
    [][\A key \in Keys : Set(key, 0) => SetRemoveFrame(key)]_vars

\* C12 witness: a group has been removed and cancelled while another key's
\* group, registered and not cancelled, has granted a lease
C12_Witness ==
    \E g \in Gids, k \in Keys :
        /\ group[g].cancelled
        /\ group[g].key # k
        /\ groups[k] # 0
        /\ ~group[groups[k]].cancelled
        /\ \E i \in Lids : leases[i].group = groups[k]

\* C16 as stated: leases are received in strictly increasing id order, over
\* all groups of the pool (leases is in the order of the receives).
C16_StrictGrantOrder ==
    \A i, j \in Lids : i < j => leases[i].id < leases[j].id

\* C16: the leases of one group are received in strictly increasing id
\* order; leases of different groups carry different ids (C10) in either
\* order.
C16_GrantOrderWithinGroup ==
    \A i, j \in Lids :
        (i < j /\ leases[i].group = leases[j].group) => leases[i].id < leases[j].id

\* C16 witness: a group has granted two leases and, in between, another
\* group's controller has drawn an id
C16_Witness ==
    \E i, j \in Lids :
        /\ i < j
        /\ leases[i].group = leases[j].group
        /\ leases[j].id > leases[i].id + 1

\* the controllers (run() goroutines that have not returned) of groups built
\* for the key
Controllers(key) == {g \in Gids : group[g].key = key /\ run[g].pc # "done"}

\* C18 as stated, its "at any time" part: a registered key never has more
\* than one controller.
C18_OneControllerPerKey ==
    \A key \in Keys : groups[key] # 0 => Cardinality(Controllers(key)) <= 1

\* the effect of Set(key, target), target >= 1: on a registered key only the
\* Target and the wake buffer of its group change; on an absent key one
\* group {Active 0, Target target} and its controller are added; nothing of
\* any other group, controller, lease or key changes
SetTargetFrame(key, target) ==
    /\ IF groups[key] # 0
       THEN /\ Len(group') = Len(group)
            /\ group'[groups[key]] =
                  [group[groups[key]] EXCEPT !.counts.Target = U64(target),
                                             !.notifyC = NotifyCap]
            /\ Get(key)'.Active = Get(key).Active
            /\ UNCHANGED <<groups, run>>
       ELSE /\ Len(group') = Len(group) + 1
            /\ Len(run') = Len(run) + 1
            /\ groups'[key] = Len(group')
            /\ Get(key)' = [Target |-> U64(target), Active |-> U64Zero]
            /\ run'[Len(run')] = NewRun
            /\ \A g \in Gids : run'[g] = run[g]
    /\ \A g \in Gids : g # groups[key] => group'[g] = group[g]
    /\ \A k \in Keys \ {key} : groups'[k] = groups[k] /\ Get(k)' = Get(k)
    /\ UNCHANGED <<leases, waiting, leaseIDs, stopped>>

\* a key has at most one group that is not cancelled, and it is the
\* registered one
OneLiveGroupPerKey ==
    \A g \in Gids : ~group[g].cancelled => groups[group[g].key] = g

\* C18: Set(key, t) with t >= 1 changes only Target and the pending wake of
\* an existing group, creates no group or controller for a registered key,
\* leaves all other keys alone, and on an absent key creates a group with
\* Active = 0 and Target = t; at any time a key has at most one group that
\* is not cancelled.
C18_SetTargetOnlyTarget ==
    /\ [][\A key \in Keys, target \in 1..MaxTarget :
             Set(key, target) => SetTargetFrame(key, target)]_vars
    /\ []OneLiveGroupPerKey

\* C18 witness: after a removal the key was set again and then raised; the
\* new group has the raised Target and a pending wake, the removed group's
\* controller has not returned yet
C18_Witness ==
    \E key \in Keys, g \in Gids :
        /\ group[g].key = key
        /\ group[g].cancelled
        /\ run[g].pc # "done"
        /\ groups[key] # 0
        /\ lastSet[key] = MaxTarget
        /\ group[groups[key]].counts.Target = U64(MaxTarget)
        /\ group[groups[key]].notifyC = NotifyCap

\* ------------------------------------------------------------------------
\* Groups whose Target is never lowered and which are never removed
\* ------------------------------------------------------------------------
\* a Set that creates the key's group or keeps or raises its Target
SetRaise(key) ==
    \E target \in 1..MaxTarget :
        /\ target >= lastSet[key]
        /\ Set(key, target)

NextC19 ==
    \/ \E key \in Keys : SetRaise(key) /\ UNCHANGED <<lockVars, linear>>
    \/ Stop /\ UNCHANGED <<lockVars, linear>>
    \/ Acquire /\ UNCHANGED <<lockVars, linear>>
    \/ \E g \in Gids : RunStep(g)
    \/ \E i \in Lids : Release(i) /\ UNCHANGED <<lockVars, linear>>
    \/ \E i \in Lids : OnceDoSlow(i) /\ UNCHANGED <<lockVars, linear>>

SpecC19 == Init /\ [][NextC19]_vars

\* the leases a group has granted whose release has not taken effect
Outstanding(g) == {i \in Lids : leases[i].group = g /\ ~leases[i].done}

\* C19: a group whose Target is never lowered and which is never removed
\* has at no time more granted, unreleased leases than its Target.
C19_OutstandingAtMostTarget ==
    \A g \in Gids :
        ~U64Lt(group[g].counts.Target, U64(Cardinality(Outstanding(g))))

\* C19 witness: a group holds as many unreleased leases as its Target after
\* an earlier lease was released, and a further receiver is waiting
C19_Witness ==
    \E g \in Gids :
        /\ group[g].counts.Target = U64(Cardinality(Outstanding(g)))
        /\ \E i \in Lids : leases[i].group = g /\ leases[i].done
        /\ waiting > 0

\* C20: the first Release of a lease changes the counts and wake buffer of
\* the group object that granted it and nothing else of the pool; when the
\* lease's key has meanwhile been removed and set again, Get(key), the
\* counts of the new group, is the same before and after; and every group
\* starts with Active = 0, whatever leases of earlier groups are held.
C20_ReleaseOnlyOwnGroup ==
    [][/\ \A i \in Lids :
            Released(i) =>
               /\ group'[leases[i].group] = decrActive(group[leases[i].group])
               /\ \A g \in Gids \ {leases[i].group} : group'[g] = group[g]
               /\ UNCHANGED <<groups, run, leaseIDs, stopped, waiting>>
               /\ groups[KeyOf(i)] \notin {0, leases[i].group} =>
                     Get(KeyOf(i))' = Get(KeyOf(i))
       /\ Len(group') > Len(group) =>
             group'[Len(group')].counts.Active = U64Zero
      ]_vars

\* C20 witness: a lease of a removed group was released while its key had a
\* new group, and the new group's Active is 0
C20_Witness ==
    \E i \in Lids :
        /\ leases[i].done /\ leases[i].afterNew
        /\ groups[KeyOf(i)] \notin {0, leases[i].group}
        /\ Get(KeyOf(i)).Active = U64Zero

\* ------------------------------------------------------------------------
\* Leases granted before Stop and released after it
\* ------------------------------------------------------------------------
\* a receive on Acquire() that starts before Stop
AcquireBeforeStop == ~stopped /\ Acquire

\* Stop once every receiver has its lease, so that every lease is one
\* granted before Stop
StopQuiet == waiting = 0 /\ Stop

\* Release of a lease after Stop
ReleaseAfterStop(i) == stopped /\ Release(i)

NextC13 ==
    \/ \E key \in Keys, target \in Targets :
          Set(key, target) /\ UNCHANGED <<lockVars, linear>>
    \/ AcquireBeforeStop /\ UNCHANGED <<lockVars, linear>>
    \/ StopQuiet /\ UNCHANGED <<lockVars, linear>>
    \/ \E g \in Gids : RunStep(g)
    \/ \E i \in Lids : ReleaseAfterStop(i) /\ UNCHANGED <<lockVars, linear>>
    \/ \E i \in Lids : OnceDoSlow(i) /\ UNCHANGED <<lockVars, linear>>

SpecC13 == Init /\ [][NextC13]_vars

\* C13: Stop changes neither the registry nor any group's counts, so Get of
\* every key returns the same before and after it; and when a lease granted
\* before Stop is first released after Stop, its group still registered,
\* Get(key).Active goes down by exactly one and does not pass below 0.
C13_StopKeepsCounts ==
    [][/\ Stop => /\ groups' = groups
                  /\ \A k \in Keys : Get(k)' = Get(k)
       /\ \A i \in Lids :
            (stopped /\ Released(i) /\ groups[KeyOf(i)] = leases[i].group) =>
               /\ Get(KeyOf(i)).Active # U64Zero
               /\ Get(KeyOf(i))'.Active = U64Dec(Get(KeyOf(i)).Active)
      ]_vars

\* ------------------------------------------------------------------------
\* The pool under a fair scheduler
\* ------------------------------------------------------------------------
\* The Go scheduler runs every runnable goroutine eventually: a run()
\* goroutine that can take a step takes one.  Nothing is assumed about the
\* callers of the pool, and nothing about which ready case a select takes.
\* For this, one key is enough: a group's controller reads and writes only
\* its own group object, the shared id counter and the shared channel.
NextFair ==
    \/ \E target \in Targets :
          Set(FirstKey, target) /\ UNCHANGED <<lockVars, linear>>
    \/ Stop /\ UNCHANGED <<lockVars, linear>>
    \/ Acquire /\ UNCHANGED <<lockVars, linear>>
    \/ \E g \in Gids : RunStep(g)
    \/ \E i \in Lids : Release(i) /\ UNCHANGED <<lockVars, linear>>
    \/ \E i \in Lids : OnceDoSlow(i) /\ UNCHANGED <<lockVars, linear>>

SpecFair ==
    /\ Init
    /\ [][NextFair]_vars
    /\ \A g \in 1..MaxCalls : WF_vars(RunStep(g))

\* the group's cancellation scope has been triggered: by del, or by Stop
Triggered(g) == g \in Gids /\ (group[g].cancelled \/ stopped)

\* the group's run() has returned
Exited(g) == g \in Gids /\ run[g].pc = "done"

\* C17: once a group's cancellation scope is triggered, by Set(key, t<1) or
\* by Stop, its controller eventually exits (a triggered scope stays
\* triggered, so: from any time on there comes a time at which every
\* controller whose scope is triggered has exited); and once it has exited its
\* locals never change again, it grants no lease and its Active is never
\* incremented (only a Release of one of its leases still lowers it).
C17_TerminatedIsTerminal ==
    /\ []<>(\A g \in Gids : Triggered(g) => Exited(g))
    /\ [][\A g \in Gids :
            Exited(g) =>
               /\ run'[g] = run[g]
               /\ \A i \in 1..Len(leases') : i > Len(leases) => leases'[i].group # g
               /\ group'[g].counts.Active
                     \in {group[g].counts.Active, U64Dec(group[g].counts.Active)}
         ]_vars

\* C17 witness: a controller has exited after Stop with a receiver waiting, a
\* wake pending and its Active below its Target
C17_Witness ==
    \E g \in Gids :
        /\ Exited(g)
        /\ stopped
        /\ waiting > 0
        /\ group[g].notifyC > 0
        /\ U64Lt(group[g].counts.Active, group[g].counts.Target)

\* the key's registered group is not cancelled, its Active is below its
\* Target and a receiver is waiting on Acquire()
WantsGrant ==
    /\ groups[FirstKey] # 0
    /\ ~stopped
    /\ ~group[groups[FirstKey]].cancelled
    /\ U64Lt(Get(FirstKey).Active, Get(FirstKey).Target)
    /\ waiting > 0

\* a controller has just handed a lease to a receiver
JustGranted == \E g \in Gids : run[g].pc = "incr"

\* C15: whenever a group that is not cancelled has Active < Target and a
\* receiver is waiting, then, unless the group is cancelled or its Active
\* reaches its Target first, eventually a lease is granted; whatever made
\* Active < Target (the initial target, a Set, a Release) left a wake that
\* the controller consumes before it loads the counts again.
C15_NoWakeLost == WantsGrant ~> (JustGranted \/ ~WantsGrant)

\* C15 witness: with Target 1 throughout, a second lease was granted by the
\* group after the Release of the first one lowered Active
C15_Witness ==
    /\ nCalls = 3
    /\ Len(group) = 1 /\ Len(leases) = 2
    /\ lastSet[FirstKey] = 1
    /\ leases[1].done /\ ~leases[2].done
    /\ run[1].pc = "incr"

\* ------------------------------------------------------------------------
\* utils.Linear: retry periods in arithmetic progression
\* ------------------------------------------------------------------------
\* time.Duration is a signed integer: values below 0 are representable and
\* nothing in LinearConfig excludes them.  All values of the model stay far
\* inside int64, so they are plain integers.
Durations == -1..MaxDuration

\* the configurations without Jitter
LinearConfigs == [First : Durations, Step : Durations, Max : Durations]

\* LinearConfig.CheckAndSetDefaults: TRUE when it returns nil
CheckAndSetDefaults(cfg) == cfg.Step # 0 /\ cfg.Max # 0

\* newLinear: the Linear built from a verified configuration; attempt has
\* its zero value, jitter is nil.  n is history: the number of calls of Inc
\* since the object was built or last Reset.
newLinear(cfg) == [cfg |-> cfg, attempt |-> 0, n |-> 0]

\* Linear.Duration, jitter nil
Duration(r) ==
    LET a == r.cfg.First + r.attempt * r.cfg.Step
    IN IF a < 1 THEN 0
       ELSE IF a <= r.cfg.Max THEN a ELSE r.cfg.Max

\* NewLinear(cfg): builds the retry unless CheckAndSetDefaults fails
NewLinear(cfg) ==
    /\ Len(linear) = 0
    /\ CheckAndSetDefaults(cfg)
    /\ linear' = <<newLinear(cfg)>>
    /\ UNCHANGED <<poolVars, lockVars>>

\* Linear.Inc
Inc(r) ==
    /\ linear[r].attempt < MaxInc
    /\ linear' = [linear EXCEPT ![r].attempt = @ + 1, ![r].n = @ + 1]
    /\ UNCHANGED <<poolVars, lockVars>>

\* Linear.Reset
Reset(r) ==
    /\ linear' = [linear EXCEPT ![r].attempt = 0, ![r].n = 0]
    /\ UNCHANGED <<poolVars, lockVars>>

\* Linear.Clone: newLinear(r.LinearConfig); one clone of the first retry is
\* enough to compare the two
Clone(r) ==
    /\ Len(linear) = 1
    /\ linear' = Append(linear, newLinear(linear[r].cfg))
    /\ UNCHANGED <<poolVars, lockVars>>

NextLinear ==
    \/ \E cfg \in LinearConfigs : NewLinear(cfg)
    \/ \E r \in 1..Len(linear) : Inc(r)
    \/ \E r \in 1..Len(linear) : Reset(r)
    \/ \E r \in 1..Len(linear) : Clone(r)

SpecLinear == Init /\ [][NextLinear]_vars

\* C14: a Linear without jitter, n calls of Inc after it was built, cloned
\* or last reset, has Duration() = First + n*Step capped at Max, and 0 when
\* First + n*Step < 1; Duration() never exceeds Max; a clone starts at
\* n = 0 whatever the attempt count of its original.
C14_LinearDuration ==
    \A r \in 1..Len(linear) :
        LET a == linear[r].cfg.First + linear[r].n * linear[r].cfg.Step
        IN /\ Duration(linear[r]) =
                 IF a < 1 THEN 0
                 ELSE IF a <= linear[r].cfg.Max THEN a ELSE linear[r].cfg.Max
           /\ Duration(linear[r]) <= linear[r].cfg.Max

\* ------------------------------------------------------------------------
\* The pool with its mutexes: Get, Set and Release step by step
\* ------------------------------------------------------------------------
\* Each goroutine of Tids makes one call at a time.  A call takes its
\* mutexes one Lock at a time, in the order of the code, and a Lock waits
\* while another goroutine holds the mutex.  What a call does between its
\* last Lock and its return touches only what its mutexes guard, and is one
\* step, deferred Unlocks included.  The controllers take cmu around
\* loadCounts and incrActive and hold nothing in their select.

\* the name under which a controller holds its group's cmu
Ctl == "run"

\* no call was made yet: the keys are still interchangeable
NoKeyYet == Len(group) = 0 /\ \A t \in Tids : thr[t].key = ""

\* the targets that take the different paths of Set: remove, and create or
\* store
LockTargets == 0..1

\* a goroutine enters a call.  Idle goroutines are interchangeable, so the
\* first one makes the call when it is idle.
Call(t, op, pc, key, target, lease) ==
    /\ thr[t] = Idle
    /\ thr[FirstTid] = Idle => t = FirstTid
    /\ nCalls < MaxLockCalls
    /\ nCalls' = nCalls + 1
    /\ thr' = [thr EXCEPT ![t] = [op |-> op, pc |-> pc, key |-> key,
                                  target |-> target, lease |-> lease]]

\* the call returns
Return(t) == thr' = [thr EXCEPT ![t] = Idle]

\* the group whose cmu the call of t takes
GroupOf(t) ==
    IF thr[t].op = "Release" THEN leases[thr[t].lease].group
    ELSE groups[thr[t].key]

\* t enters pool.Get(key)
CallGet(t, key) ==
    /\ NoKeyYet => key = FirstKey
    /\ Call(t, "Get", "lockMu", key, 0, 0)
    /\ UNCHANGED <<groups, leaseIDs, stopped, group, run, leases, waiting,
                   lastSet, mu, cmu, omu, linear>>

\* t enters pool.Set(key, target)
CallSet(t, key, target) ==
    /\ NoKeyYet => key = FirstKey
    /\ Call(t, "Set", "lockMu", key, target, 0)
    /\ UNCHANGED <<groups, leaseIDs, stopped, group, run, leases, waiting,
                   lastSet, mu, cmu, omu, linear>>

\* p.Lock() of Get and Set
LockMu(t) ==
    /\ thr[t].pc = "lockMu"
    /\ mu = ""
    /\ mu' = t
    /\ thr' = [thr EXCEPT ![t].pc = "lookup"]
    /\ UNCHANGED <<poolVars, cmu, omu, linear>>
\* variant of GetLookup whose early return leaves the pool mutex locked
GetLookup_NoUnlock(t) ==
    /\ thr[t].op = "Get" /\ thr[t].pc = "lookup"
    /\ IF groups[thr[t].key] = 0
       THEN UNCHANGED mu /\ Return(t)
       ELSE thr' = [thr EXCEPT ![t].pc = "lockCmu"] /\ UNCHANGED mu
    /\ UNCHANGED <<poolVars, cmu, omu, linear>>
\* Get under the pool mutex: g, ok := p.groups[key]; if !ok return Counts{}
\* (the deferred p.Unlock() runs), else go on to g.loadCounts()
GetLookup(t) ==
    /\ thr[t].op = "Get" /\ thr[t].pc = "lookup"
    /\ IF groups[thr[t].key] = 0
       THEN mu' = "" /\ Return(t)
       ELSE thr' = [thr EXCEPT ![t].pc = "lockCmu"] /\ UNCHANGED mu
    /\ UNCHANGED <<poolVars, cmu, omu, linear>>

\* Set under the pool mutex: del(key) for a target below 1, start(key,
\* target) for an absent key, both without a further Lock; else go on to
\* g.SetTarget(target)
SetLookup(t) ==
    /\ thr[t].op = "Set" /\ thr[t].pc = "lookup"
    /\ IF thr[t].target < 1
       THEN /\ del(thr[t].key) /\ UNCHANGED run
            /\ lastSet' = [lastSet EXCEPT ![thr[t].key] = thr[t].target]
            /\ mu' = "" /\ Return(t)
       ELSE IF groups[thr[t].key] = 0
            THEN /\ start(thr[t].key, thr[t].target)
                 /\ lastSet' = [lastSet EXCEPT ![thr[t].key] = thr[t].target]
                 /\ mu' = "" /\ Return(t)
            ELSE /\ thr' = [thr EXCEPT ![t].pc = "lockCmu"]
                 /\ UNCHANGED <<groups, group, run, lastSet, mu>>
    /\ UNCHANGED <<leaseIDs, stopped, leases, waiting, nCalls, cmu, omu, linear>>

\* g.cmu.Lock() of loadCounts, SetTarget and decrActive in a call
LockCmu(t) ==
    /\ thr[t].pc = "lockCmu"
    /\ cmu[GroupOf(t)] = ""
    /\ cmu' = [cmu EXCEPT ![GroupOf(t)] = t]
    /\ thr' = [thr EXCEPT ![t].pc = "locked"]
    /\ UNCHANGED <<poolVars, mu, omu, linear>>

\* Get: return g.counts; g.cmu.Unlock(); p.Unlock()
GetLoad(t) ==
    /\ thr[t].op = "Get" /\ thr[t].pc = "locked"
    /\ cmu' = [cmu EXCEPT ![GroupOf(t)] = ""]
    /\ mu' = ""
    /\ Return(t)
    /\ UNCHANGED <<poolVars, omu, linear>>

\* Set: g.counts.Target = target; g.notify(); g.cmu.Unlock(); p.Unlock()
SetStore(t) ==
    /\ thr[t].op = "Set" /\ thr[t].pc = "locked"
    /\ group' = [group EXCEPT ![GroupOf(t)] = SetTarget(@, thr[t].target)]
    /\ lastSet' = [lastSet EXCEPT ![thr[t].key] = thr[t].target]
    /\ cmu' = [cmu EXCEPT ![GroupOf(t)] = ""]
    /\ mu' = ""
    /\ Return(t)
    /\ UNCHANGED <<groups, leaseIDs, stopped, run, leases, waiting, nCalls,
                   omu, linear>>

\* t enters lease.Release: relOnce.Do returns at once when the Once is done
\* and else goes on to lock the Once's mutex
CallRelease(t, i) ==
    /\ IF leases[i].done
       THEN /\ thr[t] = Idle
            /\ thr[FirstTid] = Idle => t = FirstTid
            /\ nCalls < MaxLockCalls
            /\ nCalls' = nCalls + 1
            /\ UNCHANGED thr
       ELSE Call(t, "Release", "lockOmu", group[leases[i].group].key, 0, i)
    /\ UNCHANGED <<groups, leaseIDs, stopped, group, run, leases, waiting,
                   lastSet, mu, cmu, omu, linear>>

\* relOnce.Do slow path: o.m.Lock()
LockOmu(t) ==
    /\ thr[t].pc = "lockOmu"
    /\ omu[thr[t].lease] = ""
    /\ omu' = [omu EXCEPT ![thr[t].lease] = t]
    /\ thr' = [thr EXCEPT ![t].pc = "onceLocked"]
    /\ UNCHANGED <<poolVars, mu, cmu, linear>>

\* relOnce.Do slow path under the Once's mutex: if done, unlock and return,
\* else go on to l.decrActive()
OnceCheck(t) ==
    /\ thr[t].pc = "onceLocked"
    /\ IF leases[thr[t].lease].done
       THEN omu' = [omu EXCEPT ![thr[t].lease] = ""] /\ Return(t)
       ELSE thr' = [thr EXCEPT ![t].pc = "lockCmu"] /\ UNCHANGED omu
    /\ UNCHANGED <<poolVars, mu, cmu, linear>>

\* Release: g.counts.Active--; g.notify(); g.cmu.Unlock(); the Once is
\* marked done and its mutex unlocked
Decr(t) ==
    /\ thr[t].op = "Release" /\ thr[t].pc = "locked"
    /\ group' = [group EXCEPT ![GroupOf(t)] = decrActive(@)]
    /\ leases' = [leases EXCEPT ![thr[t].lease].done = TRUE]
    /\ cmu' = [cmu EXCEPT ![GroupOf(t)] = ""]
    /\ omu' = [omu EXCEPT ![thr[t].lease] = ""]
    /\ Return(t)
    /\ UNCHANGED <<groups, leaseIDs, stopped, run, waiting, lastSet, nCalls,
                   mu, linear>>

\* g.cmu.Lock() of the controller's loadCounts and incrActive
CtlLock(g) ==
    /\ run[g].pc \in {"load", "incr"}
    /\ cmu[g] = ""
    /\ cmu' = [cmu EXCEPT ![g] = Ctl]
    /\ UNCHANGED <<poolVars, mu, omu, thr, linear>>

\* the controller's loadCounts and the comparison, with g.cmu.Unlock()
CtlLoad(g) ==
    /\ cmu[g] = Ctl
    /\ RunLoad(g)
    /\ cmu' = [cmu EXCEPT ![g] = ""]
    /\ UNCHANGED <<mu, omu, thr, linear>>

\* the controller's incrActive, with g.cmu.Unlock()
CtlIncr(g) ==
    /\ cmu[g] = Ctl
    /\ RunIncr(g)
    /\ cmu' = [cmu EXCEPT ![g] = ""]
    /\ UNCHANGED <<mu, omu, thr, linear>>

\* the controller's steps that take no mutex
CtlOther(g) ==
    /\ \/ RunNewLease(g)
       \/ RunGrant(g)
       \/ RunNotified(g)
       \/ RunDone(g)
    /\ UNCHANGED <<lockVars, linear>>

\* a step of the controller of group g
CtlStep(g) ==
    /\ g \in Gids
    /\ \/ CtlLock(g)
       \/ CtlLoad(g)
       \/ CtlIncr(g)
       \/ CtlOther(g)

\* a step of goroutine t inside its call
CallStep(t) ==
    \/ LockMu(t)
    \/ GetLookup(t)
    \/ SetLookup(t)
    \/ LockCmu(t)
    \/ GetLoad(t)
    \/ SetStore(t)
    \/ LockOmu(t)
    \/ OnceCheck(t)
    \/ Decr(t)

\* pool.Stop takes no mutex of the pool and is one step
CallStop ==
    /\ nCalls < MaxLockCalls
    /\ Stop
    /\ UNCHANGED <<lockVars, linear>>

\* one goroutine starts to receive on pool.Acquire(): one lease is enough
\* to have a Release
ReceiveOne ==
    /\ waiting = 0 /\ Len(leases) = 0
    /\ waiting' = waiting + 1
    /\ UNCHANGED <<groups, leaseIDs, stopped, group, run, leases, lastSet,
                   nCalls, lockVars, linear>>

NextLocks ==
    \/ \E t \in Tids, key \in Keys : CallGet(t, key)
    \/ \E t \in Tids, key \in Keys, target \in LockTargets :
          CallSet(t, key, target)
    \/ \E t \in Tids, i \in Lids : CallRelease(t, i)
    \/ CallStop
    \/ ReceiveOne
    \/ \E t \in Tids : CallStep(t)
    \/ \E g \in Gids : CtlStep(g)

\* The Go scheduler runs every runnable goroutine eventually, and a
\* goroutine waiting in Lock gets the mutex once it stays free.
SpecLocks ==
    /\ Init
    /\ [][NextLocks]_vars
    /\ \A t \in Tids : WF_vars(CallStep(t))
    /\ \A g \in 1..MaxCalls : WF_vars(CtlStep(g))

\* the mutexes goroutine t holds
HeldBy(t) ==
    (IF mu = t THEN {"mu"} ELSE {})
      \cup {<<"cmu", g>> : g \in {h \in 1..MaxCalls : cmu[h] = t}}
      \cup {<<"omu", i>> : i \in {j \in 1..MaxCalls : omu[j] = t}}

\* a goroutine that waits for the pool mutex holds no mutex, one that waits
\* for a group's cmu holds no other cmu, and no controller ever holds the
\* pool mutex
LockOrder ==
    /\ mu # Ctl
    /\ \A t \in Tids :
         /\ thr[t].pc = "lockMu" => HeldBy(t) = {}
         /\ thr[t].pc = "lockCmu" => \A g \in 1..MaxCalls : cmu[g] # t

\* a controller in its select, waiting for its offer to be taken, for a
\* wake or for its cancellation, holds no mutex
NoLockInSelect ==
    \A g \in Gids : run[g].pc \in {"select", "done"} => cmu[g] # Ctl

\* C11: every call of Get, Set, Stop and Release completes, in every
\* interleaving with the other calls and with the controllers, whether or
\* not a receiver is on Acquire(); the pool mutex is never requested by a
\* goroutine that holds a group's mutex, and a controller holds no mutex
\* while it waits in its select.
C11_CallsComplete ==
    /\ []LockOrder
    /\ []NoLockInSelect
    /\ \A t \in Tids : (thr[t].pc # "idle") ~> (thr[t].pc = "idle")

\* C11 witness: a Set holds the pool mutex and waits for the cmu that the
\* group's controller holds, another call waits for the pool mutex, and no
\* receiver is on Acquire()
C11_Witness ==
    \E t, u \in Tids :
        /\ thr[t].op = "Set" /\ thr[t].pc = "lockCmu" /\ mu = t
        /\ cmu[GroupOf(t)] = Ctl
        /\ thr[u].pc = "lockMu"
        /\ waiting = 0
====
